---- MODULE Spec2Model ----
(***************************************************************************)
(* A model of rssdl's weekly ticker (package weekly): the week-time value  *)
(* type, the pure nextTick function, NewTicker's validation, and the       *)
(* per-specification producer goroutines that feed one unbuffered channel  *)
(* read by a feed monitor.                                                 *)
(*                                                                         *)
(* Instants are whole seconds counted from 00:00:00 of a Sunday in a       *)
(* fixed-offset location (the tests use UTC), so a calendar day is always  *)
(* 24 hours long.  Durations are whole seconds.                            *)
(***************************************************************************)
EXTENDS Integers, Sequences, FiniteSets, TLC

VARIABLES
    \* ---- pure-function harness for nextTick (specification SpecNT) ----
    ntTck,      \* the instant handed to nextTick
    ntSpec,     \* the TickSpecification handed to nextTick
    ntRes,      \* the instant nextTick returned, or NoInstant before the call
    ntCalls,    \* how many times the result was fed back as the next tck
    \* ---- the ticker (specification Spec) ----
    now,        \* the wall clock, time.Now()
    tickSpecs,  \* the argument of NewTicker
    ticker,     \* "none" before NewTicker, then "ok" (a *Ticker) or "err"
    done,       \* TRUE once the done channel is closed
    pc,         \* per producer goroutine: "start", "select", "send", "exited"
    tckOf,      \* per producer: the local tck of tick()
    nxtOf,      \* per producer: the local nxt of tick()
    tmr,        \* per producer: its timer: "none" (no timer, or its value was received),
                \* "armed", "fired" (a value waits on tmr.C), "stopped" (before it fired),
                \* "drained" (stopped after it fired, and the value received)
    chBuf,      \* the buffer of the delivery channel ch
    cpc,        \* the consumer of Ticker.C: "idle", "recv" (blocked in receive), "busy"
    last,       \* the last delivery attempt [p, ts, out], or NoAttempt
    \* ---- the feed monitors and the state store (specification SpecMon) ----
    feeds,      \* the configured feeds (their names), fixed at startup
    checkSpecs, \* per feed: its CheckSpecs, the argument of its NewTicker call
    alive,      \* TRUE while the process runs
    runs,       \* how many times the process has been started
    mpc,        \* per feed: where its checkFeed goroutine is
    order,      \* per feed: the local variable order of checkFeed
    dirty,      \* per feed: the local variable orderModified of checkFeed
    items,      \* per feed: the sorted items of the cycle in progress (or of the last one)
    idx,        \* per feed: the index of the item under examination
    mem,        \* State.s: the in-memory map, feed name -> order
    file,       \* the map decoded from the state file
    mu,         \* State.mu: the feed whose SetOrder holds the lock, or 0
    hist,       \* per feed: bookkeeping about the cycle in progress and this run
    prev,       \* per feed: what the previous run of the process left behind
    \* ---- the state store and its file (specification SpecSt) ----
    fsFile,     \* the file at the state path: [kind, data, perm]
    dirWritable,\* TRUE when the directory of the state path can be written
    tmpf,       \* per writer: its temporary file, [kind, data, perm, closed]
    stOpen,     \* TRUE when Open has returned a *State
    stMem,      \* State.s.FeedState: a map name -> order
    stMu,       \* State.mu: the writer that holds the lock, or 0
    stRd,       \* State.mu: the callers that hold the read lock
    spc,        \* per writer (0 is main, in Open): where it is
    sArg,       \* per caller: the arguments of its call in progress
    sBytes,     \* per writer: the bytes write() marshalled
    sRes,       \* what the last call that returned has returned
    sg,         \* bookkeeping about the calls made on the path
    \* ---- InWeek in a location (specification SpecIW) ----
    iwLoc,      \* the location of the reference instant
    iwWt,       \* the weekly.Time
    iwT,        \* the reference instant
    iwOut       \* the results of the successive InWeek calls

ntVars == <<ntTck, ntSpec, ntRes, ntCalls>>
tkVars == <<now, tickSpecs, ticker, done, pc, tckOf, nxtOf, tmr, chBuf, cpc, last>>
monVars == <<feeds, checkSpecs, alive, runs, mpc, order, dirty, items, idx, mem, file, mu,
             hist, prev>>
stVars == <<fsFile, dirWritable, tmpf, stOpen, stMem, stMu, stRd, spc, sArg, sBytes, sRes, sg>>
iwVars == <<iwLoc, iwWt, iwT, iwOut>>
vars == <<ntVars, tkVars, monVars, stVars, iwVars>>

None == "none"

\* Stands for "no instant yet"; every instant of the model is >= 0.
NoInstant == 0 - 1

\* "No delivery attempted yet".
NoAttempt == [p |-> 0, ts |-> NoInstant, out |-> None]

(***************************************************************************)
(* Calendar arithmetic of Go's time package in a fixed-offset location.    *)
(***************************************************************************)
SecPerDay == 24 * 60 * 60

\* The number of days AddDate adds in nextTick's default branch.
DaysPerWeek == 7

\* time.Time.Weekday: Sunday = 0 .. Saturday = 6.
Weekday(tt) == (tt \div SecPerDay) % DaysPerWeek

\* Midnight that starts tt's calendar day: time.Date(tt.Year(), tt.Month(), tt.Day(), 0, ...).
DayStart(tt) == (tt \div SecPerDay) * SecPerDay

\* time.Time.AddDate(0, 0, days).
AddDays(tt, days) == tt + days * SecPerDay

(***************************************************************************)
(* weekly.Time: a (day, hour, min) triple.                                 *)
(***************************************************************************)
WT(d, h, m) == [day |-> d, hour |-> h, min |-> m]

\* func (wt Time) InWeek(tt time.Time) time.Time
InWeek(wt, tt) ==
    AddDays(DayStart(tt), wt.day - Weekday(tt)) + wt.hour * 60 * 60 + wt.min * 60

\* func (wt Time) Before(owt Time) bool
Before(wt, owt) ==
    \/ wt.day < owt.day
    \/ (wt.day = owt.day /\ wt.hour < owt.hour)
    \/ (wt.day = owt.day /\ wt.hour = owt.hour /\ wt.min < owt.min)

\* type TickSpecification struct { Start, End Time; Frequency time.Duration }
TS(s, e, f) == [Start |-> s, End |-> e, Frequency |-> f]

(***************************************************************************)
(* func nextTick(tck, start, end, freq).  Go's Duration division truncates *)
(* toward zero; it is only evaluated with tck >= s, where it is a floor.   *)
(***************************************************************************)
\* A variant that forgets the "1 +": an aligned tck is returned unchanged.
NextAlignedNoStep(tck, s, freq) == s + freq * ((tck - s) \div freq)

\* A variant anchored to tck instead of s: a late or unaligned tck drifts.
NextAlignedFromTck(tck, s, freq) == tck + freq

NextAligned(tck, s, freq) == s + freq * (1 + ((tck - s) \div freq))

\* A variant whose default branch returns this week's start instead of next week's.
nextTickSameWeek(tck, start, end, freq) ==
    LET s == InWeek(start, tck)
        e == InWeek(end, tck)
    IN  IF tck < s THEN s
        ELSE IF tck < e /\ NextAligned(tck, s, freq) < e
             THEN NextAligned(tck, s, freq)
             ELSE s

\* A variant whose first branch returns the first tick after the start.
nextTickFromFreq(tck, start, end, freq) ==
    LET s == InWeek(start, tck)
        e == InWeek(end, tck)
    IN  IF tck < s THEN s + freq
        ELSE IF tck < e /\ NextAligned(tck, s, freq) < e
             THEN NextAligned(tck, s, freq)
             ELSE AddDays(s, DaysPerWeek)

nextTick(tck, start, end, freq) ==
    LET s == InWeek(start, tck)
        e == InWeek(end, tck)
    IN  IF tck < s
        THEN \* We haven't started ticking yet this week.
             s
        ELSE IF tck < e /\ NextAligned(tck, s, freq) < e
             THEN \* We are currently ticking.
                  NextAligned(tck, s, freq)
             ELSE \* We are done ticking this week.
                  AddDays(s, DaysPerWeek)

(***************************************************************************)
(* The ticker's variables before NewTicker has been called.                *)
(***************************************************************************)
TickerIdle ==
    /\ ticker = None
    /\ done = FALSE
    /\ pc = <<>>
    /\ tckOf = <<>>
    /\ nxtOf = <<>>
    /\ tmr = <<>>
    /\ chBuf = <<>>
    /\ cpc = "idle"
    /\ last = NoAttempt

(***************************************************************************)
(* The monitors' variables before the process has been started.            *)
(***************************************************************************)
MonIdle ==
    /\ alive = FALSE
    /\ runs = 0
    /\ mpc = <<>>
    /\ order = <<>>
    /\ dirty = <<>>
    /\ items = <<>>
    /\ idx = <<>>
    /\ mem = <<>>
    /\ mu = 0
    /\ hist = <<>>
    /\ prev = <<>>

\* No feed is configured.
NoFeeds ==
    /\ feeds = {}
    /\ checkSpecs = <<>>
    /\ file = <<>>
    /\ MonIdle

\* No state path is in use.
NoStore ==
    /\ fsFile = [kind |-> "absent", data |-> {}, perm |-> None]
    /\ dirWritable = TRUE
    /\ tmpf = <<>>
    /\ stOpen = FALSE
    /\ stMem = <<>>
    /\ stMu = 0
    /\ stRd = {}
    /\ spc = <<>>
    /\ sArg = <<>>
    /\ sBytes = <<>>
    /\ sRes = <<>>
    /\ sg = <<>>

\* No InWeek call is made.
NoInWeek ==
    /\ iwLoc = None
    /\ iwWt = None
    /\ iwT = 0
    /\ iwOut = <<>>

(***************************************************************************)
(* Specification SpecNT: nextTick as a pure function.  Init draws the      *)
(* instant and the specification; NTCall applies nextTick; NTFeed feeds    *)
(* the result back as the next tck, as tick() does with "tck = nxt".       *)
(***************************************************************************)
\* Weeks 0 .. NTMaxWeek supply the instants handed to nextTick.
NTMaxWeek == 1

\* How many times a result is fed back.
NTMaxFeed == 2

Hms(h, m, sec) == h * 60 * 60 + m * 60 + sec

\* Times of day of the sampled instants: the ones of TestNextTick plus day edges.
NTTimesOfDay ==
    { Hms(0, 0, 0), Hms(2, 0, 0), Hms(4, 22, 36), Hms(5, 29, 0), Hms(5, 29, 47),
      Hms(5, 30, 0), Hms(12, 0, 0), Hms(17, 30, 0), Hms(17, 30, 22), Hms(17, 31, 0),
      Hms(23, 59, 0), Hms(23, 59, 59) }

NTInstants ==
    { (w * DaysPerWeek + d) * SecPerDay + tod :
        w \in 0..NTMaxWeek, d \in 0..(DaysPerWeek - 1), tod \in NTTimesOfDay }

NTWeekTimes ==
    { WT(0, 0, 0), WT(2, 12, 0), WT(3, 5, 30), WT(3, 17, 30), WT(4, 5, 30),
      WT(4, 12, 0), WT(6, 23, 59) }

\* Frequencies: a second, a minute, 90 seconds, an hour, 7 hours, 8 days.
NTFreqs == { 1, 60, 90, 60 * 60, 7 * 60 * 60, 8 * SecPerDay }

\* The specifications NewTicker lets through: end not before start, freq > 0.
NTSpecs ==
    { ts \in { TS(s, e, f) : s \in NTWeekTimes, e \in NTWeekTimes, f \in NTFreqs } :
        ~Before(ts.End, ts.Start) }

NTInit ==
    /\ ntTck \in NTInstants
    /\ ntSpec \in NTSpecs
    /\ ntRes = NoInstant
    /\ ntCalls = 0
    /\ now = 0
    /\ tickSpecs = <<>>
    /\ TickerIdle
    /\ NoFeeds
    /\ NoStore
    /\ NoInWeek

NTCall ==
    /\ ntRes = NoInstant
    /\ ntRes' = nextTick(ntTck, ntSpec.Start, ntSpec.End, ntSpec.Frequency)
    /\ UNCHANGED <<ntTck, ntSpec, ntCalls, tkVars, monVars, stVars, iwVars>>

NTFeed ==
    /\ ntRes # NoInstant
    /\ ntCalls < NTMaxFeed
    /\ ntTck' = ntRes
    /\ ntRes' = NoInstant
    /\ ntCalls' = ntCalls + 1
    /\ UNCHANGED <<ntSpec, tkVars, monVars, stVars, iwVars>>

NTNext == NTCall \/ NTFeed

SpecNT == NTInit /\ [][NTNext]_vars

\* s, e and the aligned candidate of the call in progress, written out from
\* the week of ntTck (independently of nextTick).
NTWeekStart == ntTck - (ntTck % (DaysPerWeek * SecPerDay))
NTOffset(wt) == wt.day * SecPerDay + wt.hour * 60 * 60 + wt.min * 60
NTs == NTWeekStart + NTOffset(ntSpec.Start)
NTe == NTWeekStart + NTOffset(ntSpec.End)
NTk == (ntTck - NTs) \div ntSpec.Frequency
NTcand == NTs + ntSpec.Frequency * (1 + NTk)
NTReturned == ntRes # NoInstant

\* C1: inside the window (s <= t < e) with the aligned candidate before e,
\* nextTick returns that candidate, which is the first instant s + k*freq
\* strictly after t (an aligned t yields t + freq).
C1_InWindow ==
    (NTReturned /\ NTs <= ntTck /\ ntTck < NTe /\ NTcand < NTe) =>
        /\ ntRes = NTcand
        /\ ntRes > ntTck
        /\ ntRes - ntSpec.Frequency <= ntTck
        /\ (ntRes - NTs) % ntSpec.Frequency = 0

\* An aligned instant strictly inside the window was answered with t + freq.
C1_Witness ==
    /\ NTReturned /\ NTs < ntTck /\ ntTck < NTe /\ NTcand < NTe
    /\ (ntTck - NTs) % ntSpec.Frequency = 0
    /\ ntRes = ntTck + ntSpec.Frequency

C3_BeforeWindow ==
    (NTReturned /\ ntTck < NTs) => ntRes = NTs

\* An instant before the window was answered, under a frequency longer than a week.
C3_Witness ==
    /\ NTReturned /\ ntTck < NTs /\ ntRes = NTs
    /\ ntSpec.Frequency > DaysPerWeek * SecPerDay

(***************************************************************************)
(* Specification Spec: NewTicker, the producer goroutines tick(), the      *)
(* runtime timers, Ticker.Stop and the consumer of Ticker.C.               *)
(***************************************************************************)
\* The wall clock runs from Sunday 00:00 of week 0 to the end of this day.
TkHorizonDays == 8

TkHorizon == TkHorizonDays * SecPerDay

\* The clock moves in jumps of 12 hours or of 3 days.
ClockSteps == { 12 * 60 * 60, 3 * SecPerDay }

\* The instants at which NewTicker is called: Sunday 00:00, Wednesday 18:00:22
\* (inside SpecA's window, not aligned), Thursday 05:30 (the end of SpecA's window).
TkStartTimes == { 0, 3 * SecPerDay + Hms(18, 0, 22), 4 * SecPerDay + Hms(5, 30, 0) }

\* Wed 5:30PM - Thu 5:30AM every 8 hours (the window of TestNextTick).
SpecA == TS(WT(3, 17, 30), WT(4, 5, 30), 8 * 60 * 60)
\* An empty window that touches the end of SpecA's.
SpecB == TS(WT(4, 5, 30), WT(4, 5, 30), 60 * 60)
\* Thu 1:30AM - Thu 12:00PM every 11 hours: starts before SpecA's window ends.
SpecC == TS(WT(4, 1, 30), WT(4, 12, 0), 11 * 60 * 60)
\* End before start.
SpecD == TS(WT(4, 5, 30), WT(3, 17, 30), 60)
\* Zero and negative frequency.
SpecE == TS(WT(0, 0, 0), WT(0, 1, 0), 0)
SpecF == TS(WT(0, 0, 0), WT(0, 1, 0), 0 - 60)
\* Sun 12:00AM - Sun 1:00AM every 30 minutes: the window opens with the week.
SpecG == TS(WT(0, 0, 0), WT(0, 1, 0), 30 * 60)

\* The arguments NewTicker is called with.
TkSpecLists ==
    { <<>>, <<SpecA>>, <<SpecB>>, <<SpecG>>, <<SpecB, SpecA>>, <<SpecA, SpecC>>,
      <<SpecD>>, <<SpecE>>, <<SpecF>>, <<SpecA, SpecD>>, <<SpecD, SpecA>>,
      <<SpecA, SpecE>>, <<SpecA, SpecF>>, <<SpecD, SpecE>>, <<SpecE, SpecD>> }

TkProducerIds == UNION { DOMAIN l : l \in TkSpecLists }

\* A variant with make(chan time.Time, 1).
ChanCapOne == 0 + 1

\* make(chan time.Time): the capacity of the delivery channel.
ChanCap == 0

Init ==
    /\ ntTck = 0
    /\ ntSpec = SpecA
    /\ ntRes = NoInstant
    /\ ntCalls = 0
    /\ now \in TkStartTimes
    /\ tickSpecs \in TkSpecLists
    /\ TickerIdle
    /\ NoFeeds
    /\ NoStore
    /\ NoInWeek

\* A variant that also refuses an end equal to the start.
CheckSpecNonEmpty(ts) ==
    IF ~Before(ts.Start, ts.End) THEN "end is before start"
    ELSE IF ts.Frequency <= 0 THEN "freq is nonpositive"
    ELSE "nil"

\* The checks of NewTicker's first loop, for one specification: the error
\* it returns, or "nil".
CheckSpec(ts) ==
    IF Before(ts.End, ts.Start) THEN "end is before start"
    ELSE IF ts.Frequency <= 0 THEN "freq is nonpositive"
    ELSE "nil"

\* The error NewTicker returns: that of the first specification that fails
\* the checks, or "nil".
NewTickerErr(specs) ==
    IF \E i \in DOMAIN specs : CheckSpec(specs[i]) # "nil"
    THEN LET i == CHOOSE i \in DOMAIN specs :
                    /\ CheckSpec(specs[i]) # "nil"
                    /\ \A j \in 1..(i - 1) : CheckSpec(specs[j]) = "nil"
         IN  CheckSpec(specs[i])
    ELSE "nil"

\* A variant with one loop that checks and launches together: the
\* specifications before the first bad one get their goroutine.
LaunchedEager(specs) ==
    { i \in DOMAIN specs : \A j \in 1..i : CheckSpec(specs[j]) = "nil" }

\* The goroutines NewTicker's second loop launches: one per specification,
\* and the loop is reached only when the first loop returned no error.
Launched(specs) ==
    IF NewTickerErr(specs) = "nil" THEN DOMAIN specs ELSE {}

\* func NewTicker(tickSpecs []TickSpecification) (*Ticker, error)
NewTicker ==
    /\ ticker = None
    /\ ticker' = IF NewTickerErr(tickSpecs) = "nil" THEN "ticker" ELSE NewTickerErr(tickSpecs)
    /\ pc' = [p \in Launched(tickSpecs) |-> "start"]
    /\ tckOf' = [p \in Launched(tickSpecs) |-> NoInstant]
    /\ nxtOf' = [p \in Launched(tickSpecs) |-> NoInstant]
    /\ tmr' = [p \in Launched(tickSpecs) |-> None]
    /\ UNCHANGED <<now, tickSpecs, done, chBuf, cpc, last, ntVars, monVars, stVars, iwVars>>

TickerOK == ticker = "ticker"
TickerFailed == ticker \notin {None, "ticker"}

\* A variant that computes the next tick from the wall clock.
NextOfNow(p, t) ==
    nextTick(now, tickSpecs[p].Start, tickSpecs[p].End, tickSpecs[p].Frequency)

\* nextTick applied to producer p's specification.
NextOf(p, t) ==
    nextTick(t, tickSpecs[p].Start, tickSpecs[p].End, tickSpecs[p].Frequency)

\* tick(): "tck := time.Now()", then the first pass through the loop head:
\* nxt is computed and the timer created.
ProducerStart(p) ==
    /\ p \in DOMAIN pc
    /\ pc[p] = "start"
    /\ tckOf' = [tckOf EXCEPT ![p] = now]
    /\ nxtOf' = [nxtOf EXCEPT ![p] = NextOf(p, now)]
    /\ tmr' = [tmr EXCEPT ![p] = "armed"]
    /\ pc' = [pc EXCEPT ![p] = "select"]
    /\ UNCHANGED <<now, tickSpecs, ticker, done, chBuf, cpc, last, ntVars, monVars, stVars, iwVars>>

\* time.NewTimer(time.Until(nxt)): the instants the timer of a tick may be
\* set to, for the aligned instant nxt of a specification of frequency freq.
TimerDeadlines(nxt, freq) == {nxt}

\* The runtime fires p's timer at or after its deadline: a value becomes
\* available on tmr.C.
TimerFire(p) ==
    /\ p \in DOMAIN pc
    /\ tmr[p] = "armed"
    /\ \E d \in TimerDeadlines(nxtOf[p], tickSpecs[p].Frequency) : now >= d
    /\ tmr' = [tmr EXCEPT ![p] = "fired"]
    /\ UNCHANGED <<now, tickSpecs, ticker, done, pc, tckOf, nxtOf, chBuf, cpc, last, ntVars, monVars, stVars, iwVars>>

\* "case <-tmr.C:" of the outer select.
ProducerWake(p) ==
    /\ p \in DOMAIN pc
    /\ pc[p] = "select"
    /\ tmr[p] = "fired"
    /\ tmr' = [tmr EXCEPT ![p] = None]
    /\ pc' = [pc EXCEPT ![p] = "send"]
    /\ UNCHANGED <<now, tickSpecs, ticker, done, tckOf, nxtOf, chBuf, cpc, last, ntVars, monVars, stVars, iwVars>>

\* What "select { case ch <- nxt: default: }" does with the value: it is
\* handed to a receiver blocked on ch, else put in the buffer if there is
\* room, else dropped.
SendOutcome ==
    IF cpc = "recv" THEN "delivered"
    ELSE IF Len(chBuf) < ChanCap THEN "buffered"
    ELSE "dropped"

\* A variant with a plain "ch <- nxt": the send waits for a receiver.
SendWaitsForReceiver == cpc = "recv"

\* The inner select has a default case: it never waits.
SendReady == TRUE

\* The inner select, then "tck = nxt" and the next pass through the loop
\* head: nxt is recomputed and a new timer created.
ProducerSend(p) ==
    /\ p \in DOMAIN pc
    /\ pc[p] = "send"
    /\ SendReady
    /\ last' = [p |-> p, ts |-> nxtOf[p], out |-> SendOutcome]
    /\ cpc' = IF SendOutcome = "delivered" THEN "busy" ELSE cpc
    /\ chBuf' = IF SendOutcome = "buffered" THEN Append(chBuf, nxtOf[p]) ELSE chBuf
    /\ tckOf' = [tckOf EXCEPT ![p] = nxtOf[p]]
    /\ nxtOf' = [nxtOf EXCEPT ![p] = NextOf(p, nxtOf[p])]
    /\ tmr' = [tmr EXCEPT ![p] = "armed"]
    /\ pc' = [pc EXCEPT ![p] = "select"]
    /\ UNCHANGED <<now, tickSpecs, ticker, done, ntVars, monVars, stVars, iwVars>>

\* A variant of the done branch that receives from tmr.C whatever tmr.Stop
\* returned: it blocks for ever when the timer was stopped before firing.
ProducerDoneAlwaysDrain(p) ==
    /\ p \in DOMAIN pc
    /\ pc[p] = "select"
    /\ done
    /\ tmr' = [tmr EXCEPT ![p] = IF tmr[p] = "fired" THEN "drained" ELSE "stopped"]
    /\ pc' = [pc EXCEPT ![p] = IF tmr[p] = "fired" THEN "exited" ELSE "drain"]
    /\ UNCHANGED <<now, tickSpecs, ticker, done, tckOf, nxtOf, chBuf, cpc, last, ntVars, monVars, stVars, iwVars>>

\* "case <-done:" of the outer select: tmr.Stop() returns false when the
\* timer has fired, and then the value is received from tmr.C; return.
ProducerDone(p) ==
    /\ p \in DOMAIN pc
    /\ pc[p] = "select"
    /\ done
    /\ tmr' = [tmr EXCEPT ![p] = IF tmr[p] = "fired" THEN "drained" ELSE "stopped"]
    /\ pc' = [pc EXCEPT ![p] = "exited"]
    /\ UNCHANGED <<now, tickSpecs, ticker, done, tckOf, nxtOf, chBuf, cpc, last, ntVars, monVars, stVars, iwVars>>

\* func (t *Ticker) Stop(): close(t.done).  A second call would panic.
Stop ==
    /\ TickerOK
    /\ ~done
    /\ done' = TRUE
    /\ UNCHANGED <<now, tickSpecs, ticker, pc, tckOf, nxtOf, tmr, chBuf, cpc, last, ntVars, monVars, stVars, iwVars>>

\* The consumer reaches "for range ticker.C" (first, or after a cycle): it
\* takes a buffered value if there is one, else blocks in the receive.
ConsumerWait ==
    /\ TickerOK
    /\ cpc \in {"idle", "busy"}
    /\ IF chBuf # <<>>
       THEN /\ chBuf' = Tail(chBuf)
            /\ cpc' = "busy"
       ELSE /\ cpc' = "recv"
            /\ chBuf' = chBuf
    /\ UNCHANGED <<now, tickSpecs, ticker, done, pc, tckOf, nxtOf, tmr, last, ntVars, monVars, stVars, iwVars>>

\* Time passes.
AdvanceClock ==
    /\ \E d \in ClockSteps :
          /\ now + d <= TkHorizon
          /\ now' = now + d
    /\ UNCHANGED <<tickSpecs, ticker, done, pc, tckOf, nxtOf, tmr, chBuf, cpc, last, ntVars, monVars, stVars, iwVars>>

Next ==
    \/ NewTicker
    \/ \E p \in TkProducerIds : ProducerStart(p)
    \/ \E p \in TkProducerIds : TimerFire(p)
    \/ \E p \in TkProducerIds : ProducerWake(p)
    \/ \E p \in TkProducerIds : ProducerSend(p)
    \/ \E p \in TkProducerIds : ProducerDone(p)
    \/ Stop
    \/ ConsumerWait
    \/ AdvanceClock

Spec == Init /\ [][Next]_vars

\* The liveness specification starts every ticker on Wednesday 18:00:22.
FairInit ==
    /\ Init
    /\ now = 3 * SecPerDay + Hms(18, 0, 22)

\* The goroutine scheduler runs every runnable goroutine, and a select
\* with several ready cases picks among them at random, so the done case
\* cannot lose for ever.
FairSpec ==
    /\ FairInit
    /\ [][Next]_vars
    /\ \A p \in TkProducerIds :
          /\ WF_vars(ProducerStart(p))
          /\ WF_vars(ProducerSend(p))
          /\ SF_vars(ProducerDone(p))

(***************************************************************************)
(* Properties of the ticker.                                               *)
(***************************************************************************)
\* The window of specification ts in the week of instant t, written out
\* from the start of that week.
WeekStartOf(t) == t - (t % (DaysPerWeek * SecPerDay))
WindowStart(ts, t) == WeekStartOf(t) + NTOffset(ts.Start)
WindowEnd(ts, t) == WeekStartOf(t) + NTOffset(ts.End)

Attempted == last.p # 0
AttemptSpec == tickSpecs[last.p]
AttemptS == WindowStart(AttemptSpec, last.ts)
AttemptE == WindowEnd(AttemptSpec, last.ts)

C4_WitnessNextWeek ==
    /\ Attempted
    /\ last.ts >= DaysPerWeek * SecPerDay

\* C5: a tick whose delivery is attempted while no receiver waits on the
\* channel is dropped: the channel never holds a value, the consumer
\* receives a tick only in the step in which a producer sends it, and a
\* dropped tick is not retried (the producer moves on to a later instant).
C5_DroppedNotQueued ==
    /\ [](chBuf = <<>>)
    /\ [][ /\ (cpc' = "busy" /\ cpc # "busy") =>
                /\ cpc = "recv"
                /\ \E p \in DOMAIN pc :
                      /\ pc[p] = "send"
                      /\ pc'[p] = "select"
                      /\ last' = [p |-> p, ts |-> nxtOf[p], out |-> "delivered"]
           /\ \A p \in DOMAIN pc :
                (pc[p] = "send" /\ pc'[p] # "send" /\ cpc # "recv") =>
                    /\ last' = [p |-> p, ts |-> nxtOf[p], out |-> "dropped"]
                    /\ cpc' = cpc
                    /\ chBuf' = <<>>
                    /\ tckOf'[p] = nxtOf[p]
                    /\ nxtOf'[p] > nxtOf[p] ]_vars

\* A tick was dropped, the consumer has since come back to wait, and
\* nothing is there for it to receive.
C5_Witness ==
    /\ last.out = "dropped"
    /\ cpc = "recv"
    /\ chBuf = <<>>

\* C6 as stated: once Stop has been called no producer delivers a tick.
C6_NoTickAfterStop ==
    [][done => ~(last' # last /\ last'.out = "delivered")]_vars

AllExited == \A p \in DOMAIN pc : pc[p] = "exited"

\* C7: after Stop every producer eventually terminates, whether its timer
\* had fired or not when it took the done branch.
C7_ProducersTerminate == done ~> AllExited

\* Two producers have returned after Stop, one with its timer stopped before
\* it fired and one with a fired timer whose value it received.
C7_Witness ==
    /\ done
    /\ AllExited
    /\ \E p \in DOMAIN pc : tmr[p] = "stopped"
    /\ \E p \in DOMAIN pc : tmr[p] = "drained"

Returned == ticker # None

\* C8 as stated: NewTicker with an empty list fails and returns no ticker.
C8_EmptyRejected ==
    (Returned /\ tickSpecs = <<>>) => TickerFailed

\* Specification ts has end before start or a frequency <= 0.
BadSpec(ts) == NTOffset(ts.End) < NTOffset(ts.Start) \/ ts.Frequency <= 0

\* C9: NewTicker fails when any specification has end before start or a
\* frequency <= 0, and then no producer exists for any specification of the
\* list: no goroutine, no timer, no delivery attempt.
C9_InvalidRejected ==
    (Returned /\ \E i \in DOMAIN tickSpecs : BadSpec(tickSpecs[i])) =>
        /\ TickerFailed
        /\ DOMAIN pc = {}
        /\ DOMAIN tmr = {}
        /\ last = NoAttempt
        /\ ~done

\* NewTicker has failed on a list whose first specification is valid.
C9_Witness ==
    /\ TickerFailed
    /\ Len(tickSpecs) > 1
    /\ ~BadSpec(tickSpecs[1])
    /\ BadSpec(tickSpecs[2])

\* The window of b starts inside the window of a, which starts no later.
Overlap(a, b) ==
    /\ NTOffset(a.Start) <= NTOffset(b.Start)
    /\ NTOffset(b.Start) < NTOffset(a.End)

\* C10 as stated: NewTicker fails when two windows of the list overlap, and
\* accepts windows that merely touch.
C10_OverlapRejected ==
    Returned =>
        /\ (\E i, j \in DOMAIN tickSpecs : i # j /\ Overlap(tickSpecs[i], tickSpecs[j]))
              => TickerFailed
        /\ (tickSpecs = <<SpecB, SpecA>>) => TickerOK

(***************************************************************************)
(* Specification SpecMon: the feed monitors (checkFeed, one goroutine per  *)
(* feed) and the state store they share.  The ticker of a feed is seen     *)
(* from its channel: a producer may attempt a delivery at any moment, and  *)
(* the attempt succeeds only when the monitor is at the receive.           *)
(***************************************************************************)

\* How many times the process is started.
MaxRuns == 2

\* Order keys are strings, compared byte by byte.
KeyEmpty == <<>>
KeyA == <<97>>
KeyB == <<98>>
KeyC == <<99>>
\* "9" and "10": as numbers 9 < 10, as strings "10" < "9".
Key9 == <<57>>
Key10 == <<49, 48>>

\* Go's < on strings: lexicographic on the bytes, a proper prefix is smaller.
RECURSIVE StrLess(_, _)
StrLess(a, b) ==
    IF b = <<>> THEN FALSE
    ELSE IF a = <<>> THEN TRUE
    ELSE IF Head(a) < Head(b) THEN TRUE
    ELSE IF Head(a) > Head(b) THEN FALSE
    ELSE StrLess(Tail(a), Tail(b))

\* A feed item: m says whether OrderRegexp matches the title, key is the
\* captured group m[1], pub is PublishedParsed (NoInstant for nil).
Item(m, key, pub) == [m |-> m, key |-> key, pub |-> pub]

\* What a feed may serve, in the order the feed lists its items.
ListABC == << Item(TRUE, KeyA, 1), Item(TRUE, KeyC, 3), Item(TRUE, KeyB, 2) >>
ListACB == << Item(TRUE, KeyC, 2), Item(TRUE, KeyA, 1), Item(TRUE, KeyB, 3) >>
ListOther == << Item(TRUE, KeyA, 1), Item(FALSE, KeyEmpty, 2), Item(TRUE, KeyB, 2) >>
ListNoPub == << Item(TRUE, KeyA, 1), Item(TRUE, KeyB, NoInstant) >>
ListNum == << Item(TRUE, Key10, 2), Item(TRUE, Key9, 1) >>
ListA == << Item(TRUE, KeyA, 1) >>

\* The lists a feed serves: many when it is the only feed, few otherwise.
FeedLists ==
    IF Cardinality(feeds) = 1
    THEN { <<>>, ListABC, ListACB, ListOther, ListNoPub, ListNum }
    ELSE { ListA }

\* A variant that leaves the items as the feed lists them.
Unsorted(s) == s

\* Insert x behind every element of the sorted s that is not published after it.
RECURSIVE InsertByPub(_, _)
InsertByPub(x, s) ==
    IF s = <<>> THEN <<x>>
    ELSE IF x.pub < s[Len(s)].pub
         THEN Append(InsertByPub(x, SubSeq(s, 1, Len(s) - 1)), s[Len(s)])
         ELSE Append(s, x)

\* sort.SliceStable by PublishedParsed, oldest first.
RECURSIVE SortByPub(_)
SortByPub(s) ==
    IF s = <<>> THEN <<>>
    ELSE InsertByPub(s[Len(s)], SortByPub(SubSeq(s, 1, Len(s) - 1)))

\* A variant that lets an item without a publish time through.
NeverAbandoned(raw) == FALSE

\* The loop before the sort: some item has no parsed publish time.
Abandoned(raw) == \E i \in DOMAIN raw : raw[i].pub = NoInstant

\* A variant that also takes a key equal to the current order.
IsNewOrEqual(o, ord) == ~StrLess(o, ord)

\* A variant without the test of the order.
IsNewAlways(o, ord) == TRUE

\* The negation of "if o <= order { continue }".
IsNew(o, ord) == StrLess(ord, o)

\* A variant that forgets the downloaded key.
OrderKept(o, ord) == ord

\* "order, orderModified = o, true": the new value of order.
OrderAfterDownload(o, ord) == o

\* A variant that goes on with the next item after a failed download.
ContinueAfterFailure(i, n) == i + 1

\* "break" after a failed download: the index the item loop resumes at,
\* behind the last of the n items.
AfterFailure(i, n) == n + 1

\* A variant that clears orderModified whatever SetOrder returned.
DirtyClearedAlways(werr, d) == FALSE

\* orderModified after "if err := s.SetOrder(...)": cleared on success only.
DirtyAfterSetOrder(werr, d) == IF werr THEN d ELSE FALSE

\* A variant without the deferred Unlock on the error path.
HeldOnError(f, werr) == IF werr THEN f ELSE 0

\* "defer s.mu.Unlock()": the holder of the lock when SetOrder has returned.
Unlocked(f, werr) == 0

\* A variant whose channel takes a tick whatever the monitor is doing.
TickAlwaysAccepted(f) == TRUE

\* The send "case ch <- nxt" can proceed: the monitor is at "range ticker.C".
TickAccepted(f) == mpc[f] = "wait"

\* The bookkeeping of a monitor that has not run a cycle in this run.
HistNew ==
    [ init |-> KeyEmpty,      \* the order GetOrder returned
      cyc |-> 0,              \* cycles begun and not finished
      drops |-> FALSE,        \* a tick was dropped during the cycle
      fin |-> FALSE,          \* a cycle has finished in this run
      ferr |-> FALSE,         \* the fetch of the cycle failed
      raw |-> <<>>,           \* the items as fetched
      start |-> KeyEmpty,     \* order when the cycle began
      startDirty |-> FALSE,   \* orderModified when the cycle began
      att |-> <<>>,           \* the indices of the items a download was attempted for
      oks |-> <<>>,           \* the keys downloaded by the cycle
      failedAt |-> 0,         \* the index of the item whose download failed
      seen |-> 0,             \* the highest index examined
      sets |-> 0,             \* SetOrder calls of the cycle
      setArg |-> KeyEmpty,    \* the order passed to SetOrder
      lastSet |-> "none",     \* the outcome of the last SetOrder of this run
      dl |-> <<>>,            \* the keys downloaded in this run
      pValid |-> FALSE,       \* the cycle before fetched, sorted and had no failed download
      same |-> FALSE ]        \* pValid, and this cycle's sorted items are those of the cycle before

\* The greatest of a set of keys.
Greatest(ks) == CHOOSE k \in ks : \A j \in ks : ~StrLess(k, j)

\* What is known before the process has ever run: per feed the last
\* in-memory order, the outcome of the last SetOrder and the greatest key
\* downloaded so far (KeyEmpty when there is none), and the order the file
\* held for it when the process ended.
PrevNew ==
    [ exit |-> "none", by |-> 0,
      of |-> [f \in feeds |->
                [order |-> KeyEmpty, lastSet |-> "none", top |-> KeyEmpty, filed |-> KeyEmpty]] ]

\* The configurations: one feed, one feed whose frequency is negative (the
\* configuration parser refuses only zero), two feeds, two feeds of which
\* the second has a negative frequency.
MonConfigs ==
    { [f \in {1} |-> <<SpecA>>], [f \in {1} |-> <<SpecF>>],
      [f \in {1, 2} |-> <<SpecA>>], [f \in {1, 2} |-> IF f = 1 THEN <<SpecA>> ELSE <<SpecF>>] }

\* The state file before the first start: absent or empty, or holding an
\* order for feed 1.
MonFiles(fs) ==
    { [f \in fs |-> KeyEmpty], [f \in fs |-> IF f = 1 THEN KeyA ELSE KeyEmpty] }

MonInit ==
    /\ ntTck = 0
    /\ ntSpec = SpecA
    /\ ntRes = NoInstant
    /\ ntCalls = 0
    /\ now = 0
    /\ tickSpecs = <<>>
    /\ TickerIdle
    /\ checkSpecs \in MonConfigs
    /\ feeds = DOMAIN checkSpecs
    /\ file \in MonFiles(feeds)
    /\ alive = FALSE
    /\ runs = 0
    /\ mpc = [f \in feeds |-> "gone"]
    /\ order = [f \in feeds |-> KeyEmpty]
    /\ dirty = [f \in feeds |-> FALSE]
    /\ items = [f \in feeds |-> <<>>]
    /\ idx = [f \in feeds |-> 0]
    /\ mem = [f \in feeds |-> KeyEmpty]
    /\ mu = 0
    /\ hist = [f \in feeds |-> HistNew]
    /\ prev = PrevNew
    /\ NoStore
    /\ NoInWeek

\* main: state.Open reads the file and writes it back; when the write fails
\* main exits, otherwise one checkFeed goroutine is started per feed.
ProcStart ==
    /\ ~alive
    /\ runs < MaxRuns
    /\ runs' = runs + 1
    /\ \E werr \in BOOLEAN :
         IF werr
         THEN /\ prev' = [prev EXCEPT !.exit = "open failed", !.by = 0]
              /\ UNCHANGED <<alive, mem, mpc>>
         ELSE /\ alive' = TRUE
              /\ mem' = file
              /\ mpc' = [f \in feeds |-> "start"]
              /\ UNCHANGED prev
    /\ UNCHANGED <<feeds, checkSpecs, order, dirty, items, idx, file, mu, hist, ntVars, tkVars, stVars, iwVars>>

\* The process ends (cause says why): every goroutine and the in-memory
\* state are gone, the file stays.
Exit(cause, by) ==
    /\ alive' = FALSE
    /\ mu' = 0
    /\ mpc' = [f \in feeds |-> "gone"]
    /\ order' = [f \in feeds |-> KeyEmpty]
    /\ dirty' = [f \in feeds |-> FALSE]
    /\ items' = [f \in feeds |-> <<>>]
    /\ idx' = [f \in feeds |-> 0]
    /\ mem' = [f \in feeds |-> KeyEmpty]
    /\ hist' = [f \in feeds |-> HistNew]
    /\ prev' = [ exit |-> cause, by |-> by,
                 of |-> [f \in feeds |->
                    [ order |-> IF mpc[f] = "start" THEN mem[f] ELSE order[f],
                      lastSet |-> IF hist[f].lastSet = "none" THEN prev.of[f].lastSet
                                  ELSE hist[f].lastSet,
                      top |-> Greatest({prev.of[f].top} \cup
                                         { hist[f].dl[i] : i \in DOMAIN hist[f].dl }),
                      filed |-> file[f] ]] ]
    /\ UNCHANGED <<feeds, checkSpecs, runs, file, ntVars, tkVars, stVars, iwVars>>

\* main blocks in "select {}": the process runs until it is killed.
Kill ==
    /\ alive
    /\ Exit("killed", 0)

\* checkFeed: "order := s.GetOrder(f.Name)" under the read lock, and
\* "orderModified := false".
MonStart(f) ==
    /\ alive
    /\ mpc[f] = "start"
    /\ mu = 0
    /\ order' = [order EXCEPT ![f] = mem[f]]
    /\ dirty' = [dirty EXCEPT ![f] = FALSE]
    /\ hist' = [hist EXCEPT ![f].init = mem[f]]
    /\ mpc' = [mpc EXCEPT ![f] = "newticker"]
    /\ UNCHANGED <<feeds, checkSpecs, alive, runs, items, idx, mem, file, mu, prev, ntVars, tkVars, stVars, iwVars>>

\* checkFeed: weekly.NewTicker(f.CheckSpecs); on an error log.Fatalf, which
\* exits the process.
MonNewTicker(f) ==
    /\ alive
    /\ mpc[f] = "newticker"
    /\ IF NewTickerErr(checkSpecs[f]) = "nil"
       THEN /\ mpc' = [mpc EXCEPT ![f] = "wait"]
            /\ UNCHANGED <<feeds, checkSpecs, alive, runs, order, dirty, items, idx, mem,
                           file, mu, hist, prev, ntVars, tkVars, stVars, iwVars>>
       ELSE Exit("fatal", f)

\* hist[f] when a cycle of f begins.
HistBegin(f) ==
    [ hist[f] EXCEPT
        !.cyc = @ + 1, !.drops = FALSE, !.ferr = FALSE, !.raw = <<>>,
        !.start = order[f], !.startDirty = dirty[f],
        !.att = <<>>, !.oks = <<>>, !.failedAt = 0, !.seen = 0,
        !.sets = 0, !.setArg = KeyEmpty,
        !.pValid = (hist[f].fin /\ ~hist[f].ferr /\ ~Abandoned(hist[f].raw)
                      /\ hist[f].failedAt = 0 /\ hist[f].cyc = 0),
        !.same = FALSE ]

\* A producer of f's ticker attempts a delivery: the monitor receives the
\* tick and begins a cycle, or the tick is dropped.
Tick(f) ==
    /\ alive
    /\ mpc[f] \notin {"start", "newticker"}
    /\ hist[f].cyc < 2
    /\ IF TickAccepted(f)
       THEN /\ mpc' = [mpc EXCEPT ![f] = "fetch"]
            /\ hist' = [hist EXCEPT ![f] = HistBegin(f)]
       ELSE /\ hist' = [hist EXCEPT ![f].drops = TRUE]
            /\ UNCHANGED mpc
    /\ UNCHANGED <<feeds, checkSpecs, alive, runs, order, dirty, items, idx, mem, file, mu,
                   prev, ntVars, tkVars, stVars, iwVars>>

\* hist[f] when the cycle of f ends.
HistEnd(h) == [h EXCEPT !.cyc = 0, !.fin = TRUE]

\* parser.ParseURL, the publish-time loop and the sort.
MonFetch(f) ==
    /\ alive
    /\ mpc[f] = "fetch"
    /\ \/ /\ hist' = [hist EXCEPT ![f] = HistEnd([hist[f] EXCEPT !.ferr = TRUE])]
          /\ mpc' = [mpc EXCEPT ![f] = "wait"]
          /\ UNCHANGED <<items, idx>>
       \/ \E res \in FeedLists :
            IF Abandoned(res)
            THEN /\ hist' = [hist EXCEPT ![f] = HistEnd([hist[f] EXCEPT !.raw = res])]
                 /\ mpc' = [mpc EXCEPT ![f] = "wait"]
                 /\ items' = [items EXCEPT ![f] = res]
                 /\ UNCHANGED idx
            ELSE /\ hist' = [hist EXCEPT ![f].raw = res,
                                          ![f].same = (hist[f].pValid /\ SortByPub(res) = items[f])]
                 /\ items' = [items EXCEPT ![f] = SortByPub(res)]
                 /\ idx' = [idx EXCEPT ![f] = 1]
                 /\ mpc' = [mpc EXCEPT ![f] = "examine"]
    /\ UNCHANGED <<feeds, checkSpecs, alive, runs, order, dirty, mem, file, mu, prev,
                   ntVars, tkVars, stVars, iwVars>>

\* The head of the item loop and the two "continue" tests of its body.
MonExamine(f) ==
    /\ alive
    /\ mpc[f] = "examine"
    /\ IF idx[f] > Len(items[f])
       THEN /\ mpc' = [mpc EXCEPT ![f] = "persist"]
            /\ UNCHANGED <<idx, hist>>
       ELSE LET itm == items[f][idx[f]] IN
            IF itm.m /\ IsNew(itm.key, order[f])
            THEN /\ mpc' = [mpc EXCEPT ![f] = "download"]
                 /\ hist' = [hist EXCEPT ![f].att = Append(@, idx[f]), ![f].seen = idx[f]]
                 /\ UNCHANGED idx
            ELSE /\ idx' = [idx EXCEPT ![f] = @ + 1]
                 /\ hist' = [hist EXCEPT ![f].seen = idx[f]]
                 /\ UNCHANGED mpc
    /\ UNCHANGED <<feeds, checkSpecs, alive, runs, order, dirty, items, mem, file, mu, prev,
                   ntVars, tkVars, stVars, iwVars>>

\* download(itm.Link, f.DownloadDir) returns.
MonDownload(f) ==
    /\ alive
    /\ mpc[f] = "download"
    /\ LET o == items[f][idx[f]].key
           n == Len(items[f])
       IN  \E derr \in BOOLEAN :
             IF derr
             THEN /\ idx' = [idx EXCEPT ![f] = AfterFailure(idx[f], n)]
                  /\ mpc' = [mpc EXCEPT ![f] =
                                IF AfterFailure(idx[f], n) > n THEN "persist" ELSE "examine"]
                  /\ hist' = [hist EXCEPT ![f].failedAt = idx[f]]
                  /\ UNCHANGED <<order, dirty>>
             ELSE /\ order' = [order EXCEPT ![f] = OrderAfterDownload(o, order[f])]
                  /\ dirty' = [dirty EXCEPT ![f] = TRUE]
                  /\ idx' = [idx EXCEPT ![f] = @ + 1]
                  /\ mpc' = [mpc EXCEPT ![f] = "examine"]
                  /\ hist' = [hist EXCEPT ![f].oks = Append(@, o), ![f].dl = Append(@, o)]
    /\ UNCHANGED <<feeds, checkSpecs, alive, runs, items, mem, file, mu, prev, ntVars, tkVars, stVars, iwVars>>

\* "if orderModified": call SetOrder, or go back to the receive.
MonPersist(f) ==
    /\ alive
    /\ mpc[f] = "persist"
    /\ IF dirty[f]
       THEN /\ mpc' = [mpc EXCEPT ![f] = "setorder"]
            /\ hist' = [hist EXCEPT ![f].sets = @ + 1, ![f].setArg = order[f]]
       ELSE /\ mpc' = [mpc EXCEPT ![f] = "wait"]
            /\ hist' = [hist EXCEPT ![f] = HistEnd(@)]
    /\ UNCHANGED <<feeds, checkSpecs, alive, runs, order, dirty, items, idx, mem, file, mu,
                   prev, ntVars, tkVars, stVars, iwVars>>

\* SetOrder: s.mu.Lock() and the update of the map.
SetOrderLock(f) ==
    /\ alive
    /\ mpc[f] = "setorder"
    /\ mu = 0
    /\ mu' = f
    /\ mem' = [mem EXCEPT ![f] = order[f]]
    /\ mpc' = [mpc EXCEPT ![f] = "write"]
    /\ UNCHANGED <<feeds, checkSpecs, alive, runs, order, dirty, items, idx, file, hist, prev,
                   ntVars, tkVars, stVars, iwVars>>

\* SetOrder: s.write() replaces the file or fails, the lock is released, and
\* checkFeed clears orderModified when no error came back.
SetOrderWrite(f) ==
    /\ alive
    /\ mpc[f] = "write"
    /\ mu = f
    /\ \E werr \in BOOLEAN :
         /\ file' = IF werr THEN file ELSE mem
         /\ mu' = Unlocked(f, werr)
         /\ dirty' = [dirty EXCEPT ![f] = DirtyAfterSetOrder(werr, dirty[f])]
         /\ hist' = [hist EXCEPT ![f] =
                        HistEnd([hist[f] EXCEPT !.lastSet = IF werr THEN "fail" ELSE "ok"])]
    /\ mpc' = [mpc EXCEPT ![f] = "wait"]
    /\ UNCHANGED <<feeds, checkSpecs, alive, runs, order, items, idx, mem, prev, ntVars, tkVars, stVars, iwVars>>

MonNext ==
    \/ ProcStart
    \/ Kill
    \/ \E f \in feeds :
         \/ MonStart(f)
         \/ MonNewTicker(f)
         \/ Tick(f)
         \/ MonFetch(f)
         \/ MonExamine(f)
         \/ MonDownload(f)
         \/ MonPersist(f)
         \/ SetOrderLock(f)
         \/ SetOrderWrite(f)

SpecMon == MonInit /\ [][MonNext]_vars

\* The monitor of f is inside a cycle.
InCycle(f) == mpc[f] \in {"fetch", "examine", "download", "persist", "setorder", "write"}

\* The step is the examination of an item by the monitor of f.
ExaminesItem(f) ==
    /\ alive /\ alive'
    /\ mpc[f] = "examine"
    /\ idx[f] <= Len(items[f])
    /\ <<mpc[f], idx[f]>> # <<mpc'[f], idx'[f]>>

\* C11: when an item is examined a download is attempted if and only if its
\* title matches and its key is strictly greater, as a string, than order at
\* that moment; otherwise the loop moves on and order is left alone.  Order
\* changes only when a download returns (or GetOrder loads it).
C11_DownloadIffNew ==
    [][\A f \in feeds :
         /\ ExaminesItem(f) =>
              LET itm == items[f][idx[f]] IN
              /\ (mpc'[f] = "download") <=> (itm.m /\ StrLess(order[f], itm.key))
              /\ (mpc'[f] # "download") =>
                    /\ order'[f] = order[f]
                    /\ idx'[f] = idx[f] + 1
                    /\ hist'[f].att = hist[f].att
         /\ (alive /\ alive' /\ order'[f] # order[f]) => mpc[f] \in {"start", "download"}
         /\ (alive' /\ mpc'[f] = "download") =>
              /\ items'[f][idx'[f]].m
              /\ StrLess(order'[f], items'[f][idx'[f]].key)]_vars

\* A cycle has examined "10" after downloading "9": a matching key that is
\* greater as a number and not as a string was passed over.
C11_Witness ==
    \E f \in feeds :
        /\ hist[f].raw = ListNum
        /\ hist[f].oks = <<Key9>>
        /\ hist[f].seen = 2
        /\ hist[f].att = <<1>>
        /\ mpc[f] = "persist"

\* C12: after a failed download no later item of the cycle is examined or
\* downloaded, and order is the key of the last successful download of the
\* cycle, or its value at the start of the cycle; for a, b, c with b
\* failing: a downloaded, c not attempted, order a.
C12_FailureEndsCycle ==
    \A f \in feeds :
        hist[f].failedAt > 0 =>
            /\ mpc[f] \notin {"examine", "download"}
            /\ hist[f].seen = hist[f].failedAt
            /\ hist[f].att[Len(hist[f].att)] = hist[f].failedAt
            /\ order[f] = IF hist[f].oks = <<>> THEN hist[f].start
                          ELSE hist[f].oks[Len(hist[f].oks)]
            /\ (hist[f].raw = ListABC /\ hist[f].start = KeyEmpty /\ hist[f].failedAt = 2) =>
                  /\ hist[f].oks = <<KeyA>>
                  /\ hist[f].att = <<1, 2>>
                  /\ order[f] = KeyA

\* The cycle over a, b, c from "" in which the download of b failed has ended.
C12_Witness ==
    \E f \in feeds :
        /\ hist[f].raw = ListABC
        /\ hist[f].start = KeyEmpty
        /\ hist[f].failedAt = 2
        /\ hist[f].fin
        /\ mpc[f] = "wait"

\* C13: a cycle whose fetch failed, or one of whose items has no publish
\* time, attempts no download, leaves order and orderModified as they were,
\* calls no SetOrder, and the monitor is back at the receive.
C13_AbandonedCycle ==
    \A f \in feeds :
        (alive /\ (hist[f].ferr \/ \E i \in DOMAIN hist[f].raw : hist[f].raw[i].pub = NoInstant)) =>
            /\ mpc[f] = "wait"
            /\ hist[f].cyc = 0
            /\ hist[f].att = <<>>
            /\ hist[f].seen = 0
            /\ hist[f].sets = 0
            /\ order[f] = hist[f].start
            /\ dirty[f] = hist[f].startDirty

\* A cycle met an item without publish time while a (with one) was new and
\* an earlier write was still owed.
C13_Witness ==
    \E f \in feeds :
        /\ hist[f].raw = ListNoPub
        /\ hist[f].fin
        /\ order[f] = Key9
        /\ dirty[f]

\* C14: in one run the keys downloaded for a feed are strictly increasing,
\* and order is the last of them whatever SetOrder returned.
C14_NoKeyTwice ==
    \A f \in feeds :
        LET dl == hist[f].dl IN
        /\ \A i, j \in DOMAIN dl : i < j => StrLess(dl[i], dl[j])
        /\ (alive /\ dl # <<>>) => order[f] = dl[Len(dl)]

\* After a failed SetOrder a later cycle has examined the downloaded items
\* again and attempted nothing.
C14_Witness ==
    \E f \in feeds :
        /\ hist[f].lastSet = "fail"
        /\ Len(hist[f].dl) >= 2
        /\ hist[f].startDirty
        /\ hist[f].seen = 3
        /\ hist[f].att = <<>>
        /\ mpc[f] = "persist"

\* The cycle of f that just ended reached the persist step.
ReachedPersist(f) ==
    /\ alive
    /\ mpc[f] = "wait"
    /\ hist[f].fin
    /\ ~hist[f].ferr
    /\ \A i \in DOMAIN hist[f].raw : hist[f].raw[i].pub # NoInstant

\* C15: orderModified is cleared only by a SetOrder that succeeded; after a
\* failed one it stays set, and every cycle that reaches the persist step
\* with it set calls SetOrder with the current order, downloads or not; with
\* it clear, a cycle without download calls no SetOrder.
C15_DirtyUntilPersisted ==
    /\ [](\A f \in feeds :
            /\ hist[f].lastSet = "fail" => dirty[f]
            /\ (ReachedPersist(f) /\ (hist[f].startDirty \/ hist[f].oks # <<>>)) =>
                  /\ hist[f].sets = 1
                  /\ hist[f].setArg = order[f]
            /\ (ReachedPersist(f) /\ ~hist[f].startDirty /\ hist[f].oks = <<>>) =>
                  /\ hist[f].sets = 0
                  /\ ~dirty[f])
    /\ [][\A f \in feeds :
            (alive' /\ dirty[f] /\ ~dirty'[f]) =>
                (mpc[f] = "write" /\ hist'[f].lastSet = "ok")]_vars

\* A cycle that began with a write owed and downloaded nothing has called
\* SetOrder, and that call failed again.
C15_Witness ==
    \E f \in feeds :
        /\ ReachedPersist(f)
        /\ hist[f].startDirty
        /\ hist[f].oks = <<>>
        /\ hist[f].sets = 1
        /\ hist[f].lastSet = "fail"
        /\ dirty[f]

\* C16: a cycle over the items of the cycle before, which had no failed
\* download, attempts no download and leaves order alone; the cycle over
\* items whose oldest-first order is a, b, c that starts from "" and has no
\* failure downloads exactly three and ends with order c.
C16_Idempotent ==
    \A f \in feeds :
        /\ hist[f].same =>
              /\ hist[f].att = <<>>
              /\ order[f] = hist[f].start
        /\ (mpc[f] = "wait" /\ hist[f].fin /\ hist[f].raw = ListABC
              /\ hist[f].start = KeyEmpty /\ hist[f].failedAt = 0) =>
              /\ hist[f].oks = <<KeyA, KeyB, KeyC>>
              /\ order[f] = KeyC

\* The second cycle over a, b, c has ended.
C16_Witness ==
    \E f \in feeds :
        /\ hist[f].same
        /\ hist[f].raw = ListABC
        /\ hist[f].seen = 3
        /\ hist[f].dl = <<KeyA, KeyB, KeyC>>
        /\ mpc[f] = "wait"

C18_Sequential ==
    /\ [](\A f \in feeds :
            /\ hist[f].cyc <= 1
            /\ InCycle(f) <=> hist[f].cyc = 1)
    /\ [][\A f \in feeds :
            (alive' /\ hist'[f].cyc # hist[f].cyc /\ hist'[f].cyc > 0) =>
                (mpc[f] = "wait" /\ mpc'[f] = "fetch" /\ hist'[f].cyc = 1)]_vars

\* A tick was dropped while the cycle was at a download.
C18_Witness ==
    \E f \in feeds :
        /\ mpc[f] = "download"
        /\ hist[f].drops

\* The next step of the monitor of g.
MonStep(g) ==
    \/ MonStart(g)
    \/ MonNewTicker(g)
    \/ MonFetch(g)
    \/ MonExamine(g)
    \/ MonDownload(g)
    \/ MonPersist(g)
    \/ SetOrderLock(g)
    \/ SetOrderWrite(g)

\* C19: a monitor inside a fetch or a download holds no lock of the store,
\* and every other monitor can take its next step (receive a tick, run its
\* cycle, finish GetOrder and SetOrder) unless a third one holds the lock.
C19_StuckBlocksNobody ==
    \A f \in feeds :
        (alive /\ mpc[f] \in {"fetch", "download"}) =>
            /\ mu # f
            /\ \A g \in feeds \ {f} :
                  (mu \in {0, g}) =>
                      IF mpc[g] = "wait" THEN ENABLED Tick(g) ELSE ENABLED MonStep(g)

\* One monitor is in a download while the other is inside SetOrder.
C19_Witness ==
    /\ feeds = {1, 2}
    /\ mpc[1] = "download"
    /\ mpc[2] = "write"

\* C20 as stated: when the last SetOrder of the run before succeeded, the
\* monitor starts from the last in-memory order of that run and downloads
\* nothing whose key is at most a key downloaded before.
C20_AtMostOnceAcrossRestarts ==
    \A f \in feeds :
        (alive /\ prev.of[f].lastSet = "ok") =>
            /\ mpc[f] # "start" => hist[f].init = prev.of[f].order
            /\ \A i \in DOMAIN hist[f].dl : StrLess(prev.of[f].top, hist[f].dl[i])

\* The run before ended with f's order ahead of what the file held for f,
\* and the monitor of f has loaded its order in this run.
AdvanceLost(f) ==
    /\ alive
    /\ mpc[f] # "start"
    /\ StrLess(prev.of[f].filed, prev.of[f].order)

StNames == {"key1", "key2"}
StCallers == {1, 2}
StWriters == {0} \cup StCallers
StSets(c) == IF c = 1 THEN { <<"key1", "val1">>, <<"key1", "val3">> }
             ELSE { <<"key2", "val2">> }

\* proto.Marshal of the map: its entries.
Enc(m) == { <<n, m[n]>> : n \in DOMAIN m }

\* proto.Unmarshal of bytes that Marshal produced.
Dec(d) == [n \in { e[1] : e \in d } |-> (CHOOSE e \in d : e[1] = n)[2]]

\* GetOrder's lookup: "" for a name without entry.
Lookup(m, n) == IF n \in DOMAIN m THEN m[n] ELSE ""

\* A file of the file system.
File(kind, data, perm) == [kind |-> kind, data |-> data, perm |-> perm]
Absent == File("absent", {}, None)

\* A temporary file of a writer: chmod says whether os.Chmod was called on it.
Tmp(kind, data, perm, closed) ==
    [kind |-> kind, data |-> data, perm |-> perm, closed |-> closed, chmod |-> FALSE]
NoTmp == Tmp("absent", {}, None, FALSE)

\* The state path before the first Open: no file, a file of garbage, an
\* empty file that cannot be read, an empty file, a file with an entry.
StFiles ==
    { Absent,
      File("garbage", {}, "0600"),
      File("state", {}, "0000"),
      File("state", {}, "0640"),
      File("state", { <<"key2", "val2">> }, "0640") }

\* What ioutil.ReadFile and proto.Unmarshal make of the file: "absent",
\* "unreadable", "garbage" or "state".
Seen(f) ==
    IF f.kind = "absent" THEN "absent"
    ELSE IF f.perm = "0000" THEN "unreadable"
    ELSE IF f.kind = "state" THEN "state"
    ELSE "garbage"

\* A variant that takes every ReadFile error for a missing file.
OpenErrLenient(seen) ==
    IF seen = "garbage" THEN "could not parse state" ELSE "nil"

\* The error of Open's first part.
OpenErr(seen) ==
    IF seen = "unreadable" THEN "could not read state file"
    ELSE IF seen = "garbage" THEN "could not parse state"
    ELSE "nil"

\* The earlier Open: it writes only when there was no file.
OpenWritesIfAbsent(seen) == seen = "absent"

\* A variant that writes only when there was a file.
OpenWritesIfPresent(seen) == seen # "absent"

\* Open calls state.write() whatever it read.
OpenWrites(seen) == TRUE

\* A variant that keeps only the entry it sets.
UpdatedAlone(m, n, v) == [x \in {n} |-> v]

\* SetOrder: the map after "fs.Order = order" for name n.
Updated(m, n, v) == [x \in DOMAIN m \cup {n} |-> IF x = n THEN v ELSE m[x]]

\* A variant that adds the changed entries to what the file holds.
MarshalChanged(m, persisted, ns) ==
    Enc([x \in DOMAIN persisted \cup ns |-> IF x \in ns THEN m[x] ELSE persisted[x]])

\* write(): proto.Marshal(s.s), the whole map.
Marshal(m, persisted, ns) == Enc(m)

\* A variant that takes the update back when the write failed.
RolledBack(m, persisted, err) == IF err = "nil" THEN m ELSE persisted

\* The map when SetOrder returns: the update stays whatever write returned.
MemAfterWrite(m, persisted, err) == m

\* A variant of SetOrder that does not take the lock.
NeverLocked(w, rd) == TRUE

\* s.mu.Lock() can be taken: no writer and no reader holds the mutex.
LockFree(w, rd) == w = 0 /\ rd = {}

\* What the file decodes to (an empty map when it does not decode).
Persisted == IF fsFile.kind = "state" THEN Dec(fsFile.data) ELSE <<>>

\* The bookkeeping before any call.  memArg and exp say what the calls
\* made so far should have left in memory and in the file; they follow the
\* calls and their results, never the map or the file.
SgNew(f) ==
    [ saw |-> None,          \* what the Open in progress (or the last one) read
      openErr |-> None,      \* what the last Open returned
      fresh |-> FALSE,       \* Open returned a store and no SetOrder was called since
      allOk |-> TRUE,        \* every SetOrder so far returned nil, none was cut short
      lastArg |-> [n \in StNames |-> IF f.kind = "state" THEN Lookup(Dec(f.data), n) ELSE ""],
                             \* per name: the order of the last SetOrder call, or what the
                             \* file held at the beginning (kept while allOk)
      memArg |-> [n \in StNames |-> ""],
                             \* per name: the order of the last SetOrder call on this
                             \* store, or what Open should have loaded
      exp |-> [n \in StNames |-> IF f.kind = "state" THEN Lookup(Dec(f.data), n) ELSE ""],
                             \* per name: the order the last successful write should
                             \* have left in the file (kept while ~cut)
      mix |-> FALSE,         \* the last successful SetOrder came after a failed one of
                             \* another name that no write had saved
      cut |-> FALSE ]        \* a write of a SetOrder was cut short by the end of the process

NoArgs == [n \in StNames |-> ""]

\* No call has returned.
ResNew == [by |-> 0, op |-> None, name |-> "", val |-> "", err |-> None]
Res(c, op, name, val, err) == [by |-> c, op |-> op, name |-> name, val |-> val, err |-> err]

StInit ==
    /\ ntTck = 0
    /\ ntSpec = SpecA
    /\ ntRes = NoInstant
    /\ ntCalls = 0
    /\ now = 0
    /\ tickSpecs = <<>>
    /\ TickerIdle
    /\ NoFeeds
    /\ NoInWeek
    /\ fsFile \in StFiles
    /\ dirWritable \in BOOLEAN
    /\ tmpf = [w \in StWriters |-> NoTmp]
    /\ stOpen = FALSE
    /\ stMem = <<>>
    /\ stMu = 0
    /\ stRd = {}
    /\ spc = [w \in StWriters |-> "down"]
    /\ sArg = [c \in StCallers |-> <<"", "">>]
    /\ sBytes = [w \in StWriters |-> {}]
    /\ sRes = ResNew
    /\ sg = SgNew(fsFile)

StFrame == UNCHANGED <<ntVars, tkVars, monVars, iwVars>>

\* Open: ReadFile and Unmarshal.  On an error Open returns it; otherwise it
\* builds the State and goes on to state.write().
OpenRead ==
    /\ spc[0] = "down"
    /\ LET seen == Seen(fsFile)
           err == OpenErr(seen)
       IN  /\ IF err # "nil"
              THEN /\ sg' = [sg EXCEPT !.saw = seen, !.openErr = err]
                   /\ UNCHANGED <<stMem, spc, sBytes, stOpen>>
              ELSE /\ stMem' = Persisted
                   /\ IF OpenWrites(seen)
                      THEN /\ spc' = [spc EXCEPT ![0] = "temp"]
                           /\ sBytes' = [sBytes EXCEPT ![0] = Marshal(Persisted, Persisted, {})]
                           /\ sg' = [sg EXCEPT !.saw = seen, !.openErr = None]
                           /\ UNCHANGED stOpen
                      ELSE /\ spc' = [w \in StWriters |-> IF w = 0 THEN "up" ELSE "idle"]
                           /\ stOpen' = TRUE
                           /\ sg' = [sg EXCEPT !.saw = seen, !.openErr = "nil", !.fresh = TRUE,
                                               !.memArg = sg.exp]
                           /\ UNCHANGED sBytes
    /\ UNCHANGED <<fsFile, dirWritable, tmpf, stMu, stRd, sArg, sRes>>
    /\ StFrame

\* write() returns err to writer w: the deferred Close and Remove of the
\* temporary file (w has no temporary file any more; one that Remove could
\* not delete is never looked at again), then for main the end of Open, for
\* a caller the end of SetOrder with the deferred Unlock.
WriteReturns(w, err) ==
    /\ tmpf' = [tmpf EXCEPT ![w] = NoTmp]
    /\ IF w = 0
       THEN /\ IF err = "nil"
               THEN /\ stOpen' = TRUE
                    /\ spc' = [x \in StWriters |-> IF x = 0 THEN "up" ELSE "idle"]
                    /\ sg' = [sg EXCEPT !.openErr = "nil", !.fresh = TRUE, !.memArg = sg.exp]
                    /\ UNCHANGED stMem
               ELSE /\ stOpen' = FALSE
                    /\ spc' = [spc EXCEPT ![0] = "down"]
                    /\ stMem' = <<>>
                    /\ sg' = [sg EXCEPT !.openErr = "could not write state file"]
            /\ UNCHANGED <<stMu, sRes>>
       ELSE /\ stMu' = IF stMu = w THEN 0 ELSE stMu
            /\ stMem' = MemAfterWrite(stMem, Persisted, err)
            /\ spc' = [spc EXCEPT ![w] = "idle"]
            /\ sRes' = Res(w, "set", sArg[w][1], sArg[w][2], err)
            /\ sg' = IF err = "nil"
                     THEN [sg EXCEPT !.exp = sg.memArg,
                                     !.mix = \E n \in StNames \ {sArg[w][1]} :
                                                sg.memArg[n] # sg.exp[n]]
                     ELSE [sg EXCEPT !.allOk = FALSE, !.lastArg = NoArgs]
            /\ UNCHANGED stOpen

\* write(): ioutil.TempFile in the directory of the state path.
WriteTemp(w) ==
    /\ spc[w] = "temp"
    /\ IF dirWritable
       THEN /\ tmpf' = [tmpf EXCEPT ![w] = Tmp("empty", {}, "0600", FALSE)]
            /\ spc' = [spc EXCEPT ![w] = "write"]
            /\ UNCHANGED <<stOpen, stMem, stMu, sRes, sg>>
       ELSE WriteReturns(w, "could not create state file")
    /\ UNCHANGED <<fsFile, dirWritable, stRd, sArg, sBytes>>
    /\ StFrame

\* write(): f.Write(sBytes) writes everything, or fails after a part (the
\* temporary file is then removed by the deferred function).
WriteBytes(w) ==
    /\ spc[w] = "write"
    /\ \/ /\ tmpf' = [tmpf EXCEPT ![w] = [@ EXCEPT !.kind = "state", !.data = sBytes[w]]]
          /\ spc' = [spc EXCEPT ![w] = "close"]
          /\ UNCHANGED <<stOpen, stMem, stMu, sRes, sg>>
       \/ WriteReturns(w, "could not write state file")
    /\ UNCHANGED <<fsFile, dirWritable, stRd, sArg, sBytes>>
    /\ StFrame

\* write(): f.Close().
WriteClose(w) ==
    /\ spc[w] = "close"
    /\ \/ /\ tmpf' = [tmpf EXCEPT ![w].closed = TRUE]
          /\ spc' = [spc EXCEPT ![w] = "rename"]
          /\ UNCHANGED <<stOpen, stMem, stMu, sRes, sg>>
       \/ WriteReturns(w, "could not close state file")
    /\ UNCHANGED <<fsFile, dirWritable, stRd, sArg, sBytes>>
    /\ StFrame

\* write(): os.Rename of the temporary file onto the state path, which
\* needs a writable directory, and the return of write().
WriteRename(w) ==
    /\ spc[w] = "rename"
    /\ IF dirWritable
       THEN /\ fsFile' = File(tmpf[w].kind, tmpf[w].data, tmpf[w].perm)
            /\ WriteReturns(w, "nil")
       ELSE /\ WriteReturns(w, "could not rename state file")
            /\ UNCHANGED fsFile
    /\ UNCHANGED <<dirWritable, stRd, sArg, sBytes>>
    /\ StFrame

\* SetOrder(name, order) by caller c: s.mu.Lock(), the update of the map,
\* and the beginning of write(): proto.Marshal.
SetOrder(c) ==
    /\ stOpen
    /\ spc[c] = "idle"
    /\ LockFree(stMu, stRd)
    /\ \E a \in StSets(c) :
         /\ sArg' = [sArg EXCEPT ![c] = a]
         /\ stMem' = Updated(stMem, a[1], a[2])
         /\ sBytes' = [sBytes EXCEPT ![c] = Marshal(Updated(stMem, a[1], a[2]), Persisted, {a[1]})]
         /\ sg' = [sg EXCEPT !.fresh = FALSE, !.memArg[a[1]] = a[2],
                             !.lastArg[a[1]] = IF sg.allOk THEN a[2] ELSE ""]
    /\ stMu' = c
    /\ spc' = [spc EXCEPT ![c] = "temp"]
    /\ UNCHANGED <<fsFile, dirWritable, tmpf, stOpen, stRd, sRes>>
    /\ StFrame

\* GetOrder("key1") by caller c: s.mu.RLock().
GetOrderLock(c) ==
    /\ stOpen
    /\ spc[c] = "idle"
    /\ stMu = 0
    /\ stRd' = stRd \cup {c}
    /\ sArg' = [sArg EXCEPT ![c] = <<"key1", "">>]
    /\ spc' = [spc EXCEPT ![c] = "read"]
    /\ UNCHANGED <<fsFile, dirWritable, tmpf, stOpen, stMem, stMu, sBytes, sRes, sg>>
    /\ StFrame

\* GetOrder(name) by caller c: the lookup, the deferred RUnlock, the return.
GetOrderRead(c) ==
    /\ spc[c] = "read"
    /\ sRes' = Res(c, "get", sArg[c][1], Lookup(stMem, sArg[c][1]), "nil")
    /\ stRd' = stRd \ {c}
    /\ spc' = [spc EXCEPT ![c] = "idle"]
    /\ UNCHANGED <<fsFile, dirWritable, tmpf, stOpen, stMem, stMu, sArg, sBytes, sg>>
    /\ StFrame

\* os.Chmod of the directory of the state path, by somebody else.
Chmod ==
    /\ dirWritable' = ~dirWritable
    /\ UNCHANGED <<fsFile, tmpf, stOpen, stMem, stMu, stRd, spc, sArg, sBytes, sRes, sg>>
    /\ StFrame

\* A write() is in progress in writer w.
InWrite(w) == spc[w] \in {"temp", "write", "close", "rename"}

\* The process ends, at whatever step its goroutines are: the store is
\* gone, the files stay (temporary files are never looked at again).
StExit ==
    /\ spc[0] # "down"
    /\ spc' = [w \in StWriters |-> "down"]
    /\ stOpen' = FALSE
    /\ stMem' = <<>>
    /\ stMu' = 0
    /\ stRd' = {}
    /\ tmpf' = [w \in StWriters |-> NoTmp]
    /\ sArg' = [c \in StCallers |-> <<"", "">>]
    /\ sBytes' = [w \in StWriters |-> {}]
    /\ sRes' = ResNew
    /\ sg' = IF \E w \in StCallers : InWrite(w)
             THEN [sg EXCEPT !.fresh = FALSE, !.cut = TRUE, !.exp = NoArgs, !.memArg = NoArgs,
                             !.allOk = FALSE, !.lastArg = NoArgs, !.mix = FALSE]
             ELSE [sg EXCEPT !.fresh = FALSE, !.memArg = NoArgs]
    /\ UNCHANGED <<fsFile, dirWritable>>
    /\ StFrame

StNext ==
    \/ OpenRead
    \/ Chmod
    \/ StExit
    \/ \E w \in StWriters :
         \/ WriteTemp(w)
         \/ WriteBytes(w)
         \/ WriteClose(w)
         \/ WriteRename(w)
    \/ \E c \in StCallers :
         \/ SetOrder(c)
         \/ GetOrderLock(c)
         \/ GetOrderRead(c)

SpecSt == StInit /\ [][StNext]_vars

\* The last Open has returned.
OpenReturned == sg.saw # None /\ sg.openErr # None

\* C22: Open on a path without file returns an empty store only after it
\* has written the empty state to the path; when that write fails it returns
\* an error and no store.
C22_OpenCreates ==
    sg.saw = "absent" =>
        /\ ~OpenReturned => ~stOpen
        /\ (OpenReturned /\ sg.openErr # "nil") =>
              /\ sg.openErr = "could not write state file"
              /\ ~stOpen
              /\ spc[0] = "down"
        /\ (sg.openErr = "nil" /\ sg.fresh) =>
              /\ stOpen
              /\ \A n \in StNames : Lookup(stMem, n) = ""
              /\ fsFile.kind = "state"
              /\ fsFile.data = {}

\* Open on a path without file has returned a store.
C22_Witness ==
    /\ sg.saw = "absent"
    /\ sg.fresh
    /\ stOpen
    /\ fsFile.kind = "state"

\* C23: Open fails with a read error on a file it cannot read and with a
\* parse error on one it cannot decode; it returns no store, creates no
\* temporary file and leaves the file as it is.
C23_OpenRejects ==
    /\ sg.saw = "unreadable" =>
          /\ sg.openErr = "could not read state file"
          /\ fsFile.perm = "0000"
    /\ sg.saw = "garbage" =>
          /\ sg.openErr = "could not parse state"
          /\ fsFile.kind = "garbage"
    /\ sg.saw \in {"unreadable", "garbage"} =>
          /\ ~stOpen
          /\ spc[0] = "down"
          /\ \A w \in StWriters : tmpf[w] = NoTmp

\* Open has failed on the file of garbage.
C23_Witness ==
    /\ sg.saw = "garbage"
    /\ sg.openErr = "could not parse state"
    /\ dirWritable

\* C24: Open returns a store only at the end of a write() whose rename found
\* the directory writable; when the file decodes and the write fails, Open
\* returns "could not write state file" and no store.
C24_OpenProvesWritable ==
    /\ []((sg.saw = "state" /\ OpenReturned /\ sg.openErr # "nil") =>
              /\ sg.openErr = "could not write state file"
              /\ ~stOpen)
    /\ [][(~stOpen /\ stOpen') =>
              /\ spc[0] = "rename"
              /\ dirWritable
              /\ fsFile' = File("state", Enc(stMem'), "0600")]_vars

\* Open has failed on a file that decodes, in a directory that is not writable.
C24_Witness ==
    /\ sg.saw = "state"
    /\ sg.openErr = "could not write state file"
    /\ ~dirWritable
    /\ fsFile.perm = "0640"

\* The caller of the last SetOrder that returned has not called SetOrder again.
SetterQuiet == sRes.by \in StCallers /\ ~InWrite(sRes.by)

\* C25: when the write of SetOrder(name, v) failed, SetOrder returned the
\* error, the map holds v for name, and a GetOrder(name) that follows
\* returns v.
C25_KeptWhenWriteFails ==
    /\ []((sRes.op = "set" /\ sRes.err # "nil" /\ SetterQuiet) =>
              /\ stOpen
              /\ sRes.err \in {"could not create state file", "could not write state file",
                               "could not close state file", "could not rename state file"}
              /\ Lookup(stMem, sRes.name) = sRes.val)
    /\ [][(sRes.op = "set" /\ sRes.err # "nil" /\ SetterQuiet
             /\ sRes'.op = "get" /\ sRes'.name = sRes.name) =>
              sRes'.val = sRes.val]_vars

\* GetOrder("key1") has returned val1, which no write has brought to the file.
C25_Witness ==
    /\ sRes.op = "get"
    /\ sRes.val = "val1"
    /\ Lookup(Persisted, "key1") = ""
    /\ sg.exp["key1"] = ""
    /\ ~sg.cut

\* C26: when every SetOrder so far succeeded, a fresh Open of the path gives
\* for every name the order of the last SetOrder for it, "" for a name
\* never set.
C26_RoundTrip ==
    (sg.fresh /\ sg.allOk) =>
        \A n \in StNames : Lookup(stMem, n) = sg.lastArg[n]

\* A fresh Open after SetOrder calls for both names, the path empty at first.
C26_Witness ==
    /\ sg.fresh
    /\ sg.allOk
    /\ sg.lastArg = [n \in StNames |-> IF n = "key1" THEN "val3" ELSE "val2"]
    /\ sg.saw = "state"

\* C27: a successful SetOrder writes the whole map, the orders whose own
\* write failed included: a fresh Open gives for every name the order the
\* map held at the last successful SetOrder.
C27_WholeMapWritten ==
    (sg.fresh /\ ~sg.cut) =>
        \A n \in StNames : Lookup(stMem, n) = sg.exp[n]

\* SetOrder(key1, val1) failed, SetOrder(key2, val2) succeeded, and the path
\* was opened again.
C27_Witness ==
    /\ sg.fresh
    /\ ~sg.cut
    /\ sg.mix
    /\ sg.exp = [n \in StNames |-> IF n = "key1" THEN "val1" ELSE "val2"]

\* C28 as stated: the file at the path changes only by the rename that ends
\* a write, of a temporary file that was fully written, closed and had its
\* permission bits set; it is then the state being written; a write that
\* fails and the end of the process leave the file as it was.
C28_AtomicWrite ==
    /\ [](fsFile.kind \notin {"empty", "partial"})
    /\ [][fsFile' # fsFile =>
            \E w \in StWriters :
                /\ spc[w] = "rename"
                /\ tmpf[w].kind = "state"
                /\ tmpf[w].data = sBytes[w]
                /\ tmpf[w].closed
                /\ tmpf[w].chmod
                /\ fsFile'.kind = "state"
                /\ fsFile'.data = sBytes[w]]_vars

\* C29: at most one SetOrder is between Lock and Unlock and no GetOrder
\* reads meanwhile; the bytes a SetOrder writes are the whole map as it is
\* under the lock; after a SetOrder that succeeded, with none in progress,
\* the file is the whole map; GetOrder returns the order of the last
\* SetOrder for the name (or what Open loaded), as long as no write was cut
\* short by the end of the process (the file may then hold either state).
C29_Serialized ==
    /\ [](/\ Cardinality({ c \in StCallers : InWrite(c) }) <= 1
          /\ \A c \in StCallers : InWrite(c) =>
                /\ stMu = c
                /\ stRd = {}
                /\ sBytes[c] = Enc(stMem)
          /\ (sRes.op = "set" /\ sRes.err = "nil" /\ \A c \in StCallers : ~InWrite(c)) =>
                Persisted = stMem)
    /\ [][(sRes' # sRes /\ sRes'.op = "get" /\ ~sg.cut) =>
             sRes'.val = sg.memArg[sRes'.name]]_vars

\* Both callers' SetOrder have succeeded on the store that Open created.
C29_Witness ==
    /\ stOpen
    /\ sRes.op = "set"
    /\ sRes.err = "nil"
    /\ sRes.by = 2
    /\ \A c \in StCallers : ~InWrite(c)
    /\ Persisted = [n \in StNames |-> IF n = "key1" THEN "val1" ELSE "val2"]
    /\ sg.allOk
    /\ sg.saw = "absent"

(***************************************************************************)
(* Specification SpecIW: InWeek in the location of its argument.  An       *)
(* instant is a number of seconds since a Sunday 00:00 UTC; a location has *)
(* one transition, at the instant `at`, from the offset `before` to the    *)
(* offset `after` (seconds east of UTC).  time.Date answers for a wall     *)
(* clock reading that the location does not have, or has twice, in one of  *)
(* the two zones of the transition: `pick` says which.                     *)
(***************************************************************************)
SecPerHour == 60 * 60
SecPerWeek == DaysPerWeek * SecPerDay

Loc(before, after, at, pick) == [before |-> before, after |-> after, at |-> at, pick |-> pick]

\* (*Location).lookup: the offset in use at instant u.
ZoneOffset(loc, u) == IF u < loc.at THEN loc.before ELSE loc.after

\* The wall clock of instant u in loc, as seconds since the Sunday 00:00 of
\* the wall clock: what Year, Month, Day, Weekday, Hour and Minute read.
Wall(loc, u) == u + ZoneOffset(loc, u)

\* time.Date(..., loc) for the wall clock reading wall: the instant that
\* reads wall in loc when there is exactly one; otherwise the reading taken
\* in the zone that pick names.
Date(loc, wall) ==
    LET cands == { wall - o : o \in {loc.before, loc.after} }
        valid == { u \in cands : Wall(loc, u) = wall }
    IN  IF Cardinality(valid) = 1
        THEN CHOOSE u \in valid : TRUE
        ELSE wall - (IF loc.pick = "before" THEN loc.before ELSE loc.after)

\* func (wt Time) InWeek(tt time.Time) time.Time, with tt.Location() = loc:
\* the day, hour and minute are computed on tt's wall clock and
\* time.Date turns them into an instant of loc.
InWeekIn(loc, wt, u) == Date(loc, InWeek(wt, Wall(loc, u)))

\* The number of InWeek calls made in a row, each on the result of the last.
IWMaxCalls == 2

\* The week in which the locations have their transition.
IWWeek == 1

\* UTC, and locations that put the clock forward on the Sunday of IWWeek:
\* at 02:00 from UTC-5 to UTC-4, at 00:00 from UTC-3 to UTC-2, at 01:00 from
\* UTC to UTC+1; and one that puts it back at 02:00 from UTC-4 to UTC-5.
IWLocs ==
    { Loc(0, 0, 0, "before") }
    \cup { Loc(0 - 5 * SecPerHour, 0 - 4 * SecPerHour, IWWeek * SecPerWeek + 7 * SecPerHour, p)
             : p \in {"before", "after"} }
    \cup { Loc(0 - 3 * SecPerHour, 0 - 2 * SecPerHour, IWWeek * SecPerWeek + 3 * SecPerHour, p)
             : p \in {"before", "after"} }
    \cup { Loc(0, SecPerHour, IWWeek * SecPerWeek + SecPerHour, p)
             : p \in {"before", "after"} }
    \cup { Loc(0 - 4 * SecPerHour, 0 - 5 * SecPerHour, IWWeek * SecPerWeek + 6 * SecPerHour, p)
             : p \in {"before", "after"} }

\* The week times of TestInWeek, and three of the small hours of Sunday.
IWWeekTimes ==
    { WT(0, 5, 13), WT(1, 11, 43), WT(2, 0, 0), WT(3, 12, 0), WT(4, 19, 30),
      WT(5, 23, 59), WT(6, 17, 17), WT(0, 0, 0), WT(0, 1, 30), WT(0, 2, 30) }

\* Instants of the week of the transition and of the week after it.
IWInstants ==
    { w * SecPerWeek + d * SecPerDay + h * SecPerHour + 17
        : w \in {IWWeek, IWWeek + 1}, d \in {0, 3, 6}, h \in {8, 23} }

IWInit ==
    /\ ntTck = 0
    /\ ntSpec = SpecA
    /\ ntRes = NoInstant
    /\ ntCalls = 0
    /\ now = 0
    /\ tickSpecs = <<>>
    /\ TickerIdle
    /\ NoFeeds
    /\ NoStore
    /\ iwLoc \in IWLocs
    /\ iwWt \in IWWeekTimes
    /\ iwT \in IWInstants
    /\ iwOut = <<>>

\* gotTime := w.InWeek(val), then w.InWeek(gotTime), and so on.
IWCall ==
    /\ Len(iwOut) < IWMaxCalls
    /\ iwOut' = Append(iwOut, InWeekIn(iwLoc, iwWt,
                                       IF iwOut = <<>> THEN iwT ELSE iwOut[Len(iwOut)]))
    /\ UNCHANGED <<iwLoc, iwWt, iwT>>
    /\ UNCHANGED <<ntVars, tkVars, monVars, stVars>>

IWNext == IWCall

SpecIW == IWInit /\ [][IWNext]_vars

\* The Sunday-to-Saturday week of the wall clock of instant u in loc.
WeekOf(loc, u) == Wall(loc, u) \div SecPerWeek

\* C30 as stated: the result of InWeek has w's weekday, hour and minute with
\* zero seconds, it falls in the same Sunday-to-Saturday week as t, and
\* InWeek of the result is the result.
C30_InWeekIdempotent ==
    /\ Len(iwOut) >= 1 =>
          LET w == Wall(iwLoc, iwOut[1])
          IN  /\ Weekday(w) = iwWt.day
              /\ (w % SecPerDay) = iwWt.hour * SecPerHour + iwWt.min * 60
              /\ WeekOf(iwLoc, iwOut[1]) = WeekOf(iwLoc, iwT)
    /\ Len(iwOut) >= 2 => iwOut[2] = iwOut[1]

(***************************************************************************)
(* Frame of SetOrder, on SpecSt.                                           *)
(***************************************************************************)
\* Caller c makes the SetOrder step for name m.
SetsName(c, m) == spc[c] = "idle" /\ spc'[c] = "temp" /\ sArg'[c][1] = m

\* While the store is open the map's entry for m changes only by a SetOrder for m.
MemFrame ==
    (stOpen /\ stOpen') =>
        \A m \in StNames :
            Lookup(stMem', m) # Lookup(stMem, m) => \E c \in StCallers : SetsName(c, m)

Pos(raw, x) == CHOOSE i \in DOMAIN raw : raw[i] = x

\* s holds the items of raw, oldest first, items of equal publish time in
\* the order of raw.
SortedStable(raw, s) ==
    /\ Len(s) = Len(raw)
    /\ { s[i] : i \in DOMAIN s } = { raw[i] : i \in DOMAIN raw }
    /\ \A i, j \in DOMAIN s :
         i < j => /\ s[i].pub <= s[j].pub
                  /\ s[i].pub = s[j].pub => Pos(raw, s[i]) < Pos(raw, s[j])

\* C32: in a cycle the items are examined oldest first, items of equal
\* publish time in the order fetched; the downloads follow that order and
\* every value order takes during the cycle is greater than the one before.
C32_OldestFirst ==
    /\ [](\A f \in feeds :
            (alive /\ mpc[f] \in {"examine", "download"}) =>
               /\ SortedStable(hist[f].raw, items[f])
               /\ \A i, j \in DOMAIN hist[f].att :
                    i < j => /\ hist[f].att[i] < hist[f].att[j]
                             /\ items[f][hist[f].att[i]].pub <= items[f][hist[f].att[j]].pub
               /\ \A i, j \in DOMAIN hist[f].oks :
                    i < j => StrLess(hist[f].oks[i], hist[f].oks[j]))
    /\ [][\A f \in feeds :
            (alive /\ alive' /\ InCycle(f) /\ InCycle(f)') =>
               /\ (mpc[f] \in {"examine", "download"} /\ idx'[f] # idx[f]) => idx'[f] > idx[f]
               /\ order'[f] # order[f] =>
                    /\ mpc[f] = "download"
                    /\ order'[f] = items[f][idx[f]].key
                    /\ StrLess(order[f], order'[f])]_vars

\* A cycle fetched a, c, b with c published last and has downloaded a, b, c.
C32_Witness ==
    \E f \in feeds :
        /\ alive
        /\ mpc[f] = "examine"
        /\ hist[f].raw = ListABC
        /\ hist[f].oks = <<KeyA, KeyB, KeyC>>
        /\ order[f] = KeyC

(***************************************************************************)
(* More properties of the ticker, on Spec.                                 *)
(***************************************************************************)
\* C33: a producer waits only for its timer and for the stop signal: its
\* first pass and its send can always proceed, whatever the consumer and
\* the other producers do, and the send leaves the producer at its next
\* aligned instant and every other producer as it was.
C33_NeverBlocks ==
    /\ [](\A p \in DOMAIN pc :
            /\ pc[p] = "start" => ENABLED ProducerStart(p)
            /\ pc[p] = "send" => ENABLED ProducerSend(p)
            /\ (pc[p] = "select" /\ tmr[p] = "fired") => ENABLED ProducerWake(p)
            /\ (pc[p] = "select" /\ done) => ENABLED ProducerDone(p))
    /\ [][\A p \in DOMAIN pc :
            (pc[p] = "send" /\ pc'[p] # "send") =>
               /\ pc'[p] = "select"
               /\ tmr'[p] = "armed"
               /\ tckOf'[p] = nxtOf[p]
               /\ nxtOf'[p] = NextOf(p, nxtOf[p])
               /\ \A q \in DOMAIN pc \ {p} :
                    /\ pc'[q] = pc[q]
                    /\ tmr'[q] = tmr[q]
                    /\ nxtOf'[q] = nxtOf[q]]_vars

\* The consumer has never come to the receive, a producer's tick was
\* dropped, and another producer is at its send.
C33_Witness ==
    /\ cpc = "idle"
    /\ last.out = "dropped"
    /\ \E q \in DOMAIN pc : q # last.p /\ pc[q] = "send"

\* C34 as stated: the timer of a tick is set to its aligned instant plus a
\* jitter drawn from [0, frequency); the timestamp of the attempt and the
\* instant the following tick is computed from are the aligned instant.
C34_Jittered ==
    /\ [](\A p \in DOMAIN pc :
            tmr[p] = "armed" =>
               TimerDeadlines(nxtOf[p], tickSpecs[p].Frequency)
                  = { nxtOf[p] + j : j \in 0..(tickSpecs[p].Frequency - 1) })
    /\ [][\A p \in DOMAIN pc :
            (pc[p] = "send" /\ pc'[p] # "send") =>
               /\ last'.ts = nxtOf[p]
               /\ tckOf'[p] = nxtOf[p]]_vars

(***************************************************************************)
(* More properties of the monitors, on SpecMon.                            *)
(***************************************************************************)
\* C35: while the process lives the order of a monitor never decreases, an
\* order passed to SetOrder is never below the one passed before (or the
\* one loaded at the start), whatever fails.
C35_OrderNeverDecreases ==
    /\ [](\A f \in feeds :
            (alive /\ mpc[f] # "start") =>
               /\ ~StrLess(order[f], mem[f])
               /\ ~StrLess(order[f], hist[f].init)
               /\ mpc[f] \in {"setorder", "write"} => hist[f].setArg = order[f])
    /\ [][\A f \in feeds :
            (alive /\ alive' /\ mpc[f] # "start") =>
               /\ ~StrLess(order'[f], order[f])
               /\ (mpc[f] = "setorder" /\ mpc'[f] = "write") =>
                    /\ mem'[f] = order[f]
                    /\ ~StrLess(mem'[f], mem[f])]_vars

\* A SetOrder failed, a later cycle fetched, downloaded one item, failed to
\* download the next, and is in its SetOrder with a greater order.
C35_Witness ==
    \E f \in feeds :
        /\ alive
        /\ mpc[f] = "write"
        /\ hist[f].lastSet = "fail"
        /\ hist[f].failedAt > 0
        /\ hist[f].oks # <<>>
        /\ StrLess(file[f], mem[f])
        /\ StrLess(hist[f].init, hist[f].start)

\* The keys f has downloaded since the process started.
Downloaded(f) == { hist[f].dl[i] : i \in DOMAIN hist[f].dl }

\* C36: no item is downloaded whose key is not greater than a key already
\* downloaded; a cycle whose items are a, c, b oldest first, begun with the
\* empty order and without a failed download, downloads a and c, skips b
\* and ends with order c; a later cycle over the same items attempts nothing.
C36_OutOfOrderSkipped ==
    /\ [](\A f \in feeds :
            alive =>
               /\ mpc[f] = "download" =>
                    \A k \in Downloaded(f) : StrLess(k, items[f][idx[f]].key)
               /\ (hist[f].raw = ListACB /\ mpc[f] \in {"persist", "setorder", "write"}
                     /\ hist[f].start = KeyEmpty /\ hist[f].failedAt = 0) =>
                    /\ hist[f].att = <<1, 2>>
                    /\ hist[f].oks = <<KeyA, KeyC>>
                    /\ order[f] = KeyC
               /\ (hist[f].raw = ListACB /\ mpc[f] \in {"examine", "persist"}
                     /\ KeyC \in Downloaded(f) /\ hist[f].start = KeyC) =>
                    hist[f].att = <<>>)
    /\ [][\A f \in feeds :
            (ExaminesItem(f)
               /\ \E k \in Downloaded(f) : ~StrLess(k, items[f][idx[f]].key)) =>
                  /\ mpc'[f] = "examine"
                  /\ idx'[f] = idx[f] + 1
                  /\ order'[f] = order[f]]_vars

\* a and c were downloaded from a, c, b; a later cycle over the same items
\* has examined all three and attempted nothing.
C36_Witness ==
    \E f \in feeds :
        /\ alive
        /\ hist[f].raw = ListACB
        /\ hist[f].dl = <<KeyA, KeyC>>
        /\ hist[f].start = KeyC
        /\ hist[f].seen = 3
        /\ hist[f].att = <<>>
        /\ mpc[f] = "persist"

(***************************************************************************)
(* The file and the map, on SpecSt.                                        *)
(***************************************************************************)
\* No write() is in progress.
NoWrite == \A w \in StWriters : ~InWrite(w)

\* The step is the return of a successful write() to the open store.
WriteSucceeds ==
    \E w \in StWriters : spc[w] = "rename" /\ dirWritable /\ spc'[w] \in {"up", "idle"}

\* The step is the return of a failed write() inside SetOrder.
WriteFails ==
    \E c \in StCallers : InWrite(c) /\ spc'[c] = "idle" /\ sRes'.err # "nil"

\* C37: a write that succeeds leaves the file equal to the map, and until
\* the next SetOrder neither changes; a write that fails changes neither
\* the file nor the map, so the file holds the map as it was at the last
\* successful write (followed by exp as long as the end of the process has
\* cut no write short).
C37_FileNotAhead ==
    /\ [](/\ (sg.fresh /\ NoWrite) => Persisted = stMem
          /\ (stOpen /\ ~sg.cut) =>
                \A n \in StNames : Lookup(Persisted, n) = sg.exp[n])
    /\ [][/\ WriteSucceeds =>
                /\ Persisted' = stMem'
                /\ ~sg'.cut => \A n \in StNames : sg'.exp[n] = Lookup(stMem', n)
          /\ WriteFails =>
                /\ fsFile' = fsFile
                /\ stMem' = stMem
                /\ sg'.exp = sg.exp
          /\ (stOpen /\ stOpen' /\ NoWrite /\ NoWrite') =>
                /\ fsFile' = fsFile
                /\ stMem' = stMem]_vars

\* SetOrder(key1, val3) has failed after SetOrder(key1, val1) succeeded: the
\* file holds val1, the map val3.
C37_Witness ==
    /\ stOpen
    /\ NoWrite
    /\ sRes.op = "set"
    /\ sRes.err # "nil"
    /\ Lookup(Persisted, "key1") = "val1"
    /\ Lookup(stMem, "key1") = "val3"
    /\ ~sg.cut

(***************************************************************************)
(* Catching up, on Spec.                                                   *)
(***************************************************************************)
\* The instants specification ts ticks at in week wk: the start of the
\* window and every multiple of the frequency after it that is before the
\* end (the start alone when the end equals the start).
AlignedOf(ts, wk) ==
    LET s == wk * SecPerWeek + NTOffset(ts.Start)
        e == wk * SecPerWeek + NTOffset(ts.End)
    IN  IF e = s THEN {s}
        ELSE { s + k * ts.Frequency : k \in 0..((e - s - 1) \div ts.Frequency) }

\* The instants producer p ticks at in the week of t and in the week after.
AlignedNear(p, t) ==
    AlignedOf(tickSpecs[p], t \div SecPerWeek) \cup AlignedOf(tickSpecs[p], (t \div SecPerWeek) + 1)

EmptyWindow(ts) == ts.End = ts.Start

C40_BlockedAfterStop ==
    [][(done /\ cpc = "recv") => cpc' = "recv"]_vars

====
